---- MODULE Spec2Model ----
(***************************************************************************)
(* PicoClaw manager (picoclaw_manager.py): the PicoClawManager supervisor, *)
(* the threads of the server process that call it (the HTTP server thread  *)
(* and the cleanup threads the shutdown handler spawns), the output reader *)
(* threads, and the child processes with their output pipes.               *)
(***************************************************************************)
EXTENDS Integers, Sequences, FiniteSets, TLC

\* ---- bounds of the model ------------------------------------------------
MaxOps == 2           \* requests served and shutdown signals delivered, together
MaxLines == 1         \* output lines written by all children together
LogLines == 102       \* the same, where the log buffer is filled (SpecLog)
MaxTicks == 1         \* clock ticks between steps, where time passes (SpecStatus)

\* ---- program constants --------------------------------------------------
None == 0             \* Python None, for _process, _started_at, pid
GracePolls == 50      \* for _ in range(50)
max_log_lines == 100  \* self._max_log_lines
RecentLogs == 20      \* self._log_tail[-20:]
MainThread == 0       \* the thread running server.serve_forever()

\* every launch takes a request (or the auto-start), every cleanup thread a signal
Children == 1..(MaxOps + 1)
Cleanups == 1..MaxOps
Threads == {MainThread} \cup Cleanups

VARIABLES
    process,      \* self._process: None or the child the Popen object stands for
    started_at,   \* self._started_at: None or the time of the launch
    log_tail,     \* self._log_tail: sequence of lines <<child, k>>
    lock,         \* self._lock: Free or the thread holding it
    child,        \* child -> "unborn" | "live" | "exited"
    wopen,        \* child -> the write end of its output pipe is still open
    pipe,         \* child -> lines written and not yet read
    written,      \* child -> lines written so far
    rpc,          \* child -> position of its reader thread (_read_output)
    bin_exists,   \* os.path.isfile(self.picoclaw_bin)
    now,          \* datetime.now()
    budget,       \* what the environment may still do: ops (requests and signals),
                  \* lines, ticks
    pc,           \* thread -> position
    op,           \* thread -> operation being executed
    loc,          \* thread -> locals of the operation
    res,          \* thread -> what the last finished call returned
    server,       \* "starting" | "serving" | "shutdown" (requested) | "stopped"
    stop_failed   \* history: some _stop_process call has returned a failure

vars == <<process, started_at, log_tail, lock, child, wopen, pipe, written,
          rpc, bin_exists, stop_failed, now, budget, pc, op, loc, res, server>>

osVars == <<child, wopen, pipe, written>>
mgrVars == <<process, started_at, log_tail, lock>>
thrVars == <<pc, op, loc, res>>

Free == -1

\* locals of a call: pid, the poll counter, the signals sent so far (each with
\* the child whose group it went to) and whether a poll saw the child exited
\* (_stop_process); running, the child is_running polled, and the fields read so
\* far (status); before: <<_process, _started_at>> when the call took the lock
NoLoc == [pid |-> None, i |-> 0, sent |-> <<>>, sawexit |-> FALSE,
          running |-> FALSE, polled |-> None, sa |-> None, logs |-> <<>>,
          before |-> <<None, None>>]

\* a result dict (start, stop, restart), a status report, or the exception raised;
\* snap: <<_process, _started_at, live child>> when the status call began
NoRes == [op |-> "none", kind |-> "none", success |-> TRUE, fault |-> FALSE,
          pid |-> None, running |-> FALSE, started_at |-> None, uptime |-> None,
          logs |-> <<>>, polled |-> None, sent |-> <<>>,
          snap |-> <<None, None, None>>]

\* self._process.poll() is None
Poll(c) == child[c] = "live"

\* self._process and self._process.poll() is None
ProcessLive == process # None /\ Poll(process)

\* self._log_tail[-20:]
LastLogs(s) == IF Len(s) <= RecentLogs THEN s
               ELSE SubSeq(s, Len(s) - RecentLogs + 1, Len(s))

\* ---- initial state: after PicoClawManager.__init__ and main()'s wiring, with
\* or without --auto-start ----
InitWith(b) ==
    /\ process = None
    /\ started_at = None
    /\ log_tail = <<>>
    /\ lock = Free
    /\ child = [c \in Children |-> "unborn"]
    /\ wopen = [c \in Children |-> FALSE]
    /\ pipe = [c \in Children |-> 0]
    /\ written = [c \in Children |-> 0]
    /\ rpc = [c \in Children |-> "none"]
    /\ bin_exists \in BOOLEAN
    /\ now = 1
    /\ budget = b
    /\ \E auto_start \in BOOLEAN :
         /\ pc = [t \in Threads |-> IF t # MainThread THEN "unborn"
                                    ELSE IF auto_start THEN "start" ELSE "idle"]
         /\ op = [t \in Threads |-> IF t = MainThread /\ auto_start
                                    THEN "start" ELSE "none"]
    /\ loc = [t \in Threads |-> NoLoc]
    /\ res = [t \in Threads |-> NoRes]
    /\ server = "starting"
    /\ stop_failed = FALSE

Init == InitWith([ops |-> MaxOps, lines |-> MaxLines, ticks |-> 0])

\* the server process is still running (its threads can take steps)
Up == server # "stopped"

\* ---- the environment ----------------------------------------------------
\* the binary is removed from its path
BinaryRemoved ==
    /\ bin_exists
    /\ bin_exists' = FALSE
    /\ UNCHANGED <<stop_failed, mgrVars, osVars, rpc, now, budget, thrVars, server>>

\* time passes
Tick ==
    /\ budget.ticks > 0
    /\ now' = now + 1
    /\ budget' = [budget EXCEPT !.ticks = @ - 1]
    /\ UNCHANGED <<mgrVars, osVars, rpc, bin_exists, stop_failed, thrVars, server>>

\* the child (or a descendant holding the pipe) writes one line
ChildWrite(c) ==
    /\ wopen[c]
    /\ budget.lines > 0
    /\ pipe' = [pipe EXCEPT ![c] = @ + 1]
    /\ written' = [written EXCEPT ![c] = @ + 1]
    /\ budget' = [budget EXCEPT !.lines = @ - 1]
    /\ UNCHANGED <<mgrVars, child, wopen, rpc, bin_exists, stop_failed, now, thrVars, server>>

\* the child exits (on its own or on a signal); its pipe closes unless a
\* descendant still holds the write end
ChildExit(c) ==
    /\ child[c] = "live"
    /\ child' = [child EXCEPT ![c] = "exited"]
    /\ \E held \in BOOLEAN : wopen' = [wopen EXCEPT ![c] = held]
    /\ UNCHANGED <<mgrVars, pipe, written, rpc, bin_exists, stop_failed, now, budget,
                   thrVars, server>>

\* the last holder of the write end goes away
StreamClose(c) ==
    /\ child[c] = "exited"
    /\ wopen[c]
    /\ wopen' = [wopen EXCEPT ![c] = FALSE]
    /\ UNCHANGED <<mgrVars, child, pipe, written, rpc, bin_exists, stop_failed, now,
                   budget, thrVars, server>>

\* ---- _read_output: one reader thread per launched child -------------------
\* (mutant: the comparison is >= instead of >)
OverCapacityAtLimit(s) == Len(s) >= max_log_lines

\* len(self._log_tail) > self._max_log_lines
OverCapacity(s) == Len(s) > max_log_lines

ReadOutput(c) ==
    /\ Up
    /\ rpc[c] \in {"read", "check", "pop"}
    /\ rpc[c] = "read" => (pipe[c] > 0 \/ ~wopen[c])   \* else readline blocks
    /\ IF rpc[c] = "read" /\ pipe[c] > 0
       THEN \* readline returns a line: decode and append it
            /\ log_tail' = Append(log_tail, <<c, written[c] - pipe[c] + 1>>)
            /\ pipe' = [pipe EXCEPT ![c] = @ - 1]
            /\ rpc' = [rpc EXCEPT ![c] = "check"]
       ELSE IF rpc[c] = "read"
       THEN \* readline returns b"": the loop and the thread end
            /\ rpc' = [rpc EXCEPT ![c] = "done"]
            /\ UNCHANGED <<log_tail, pipe>>
       ELSE IF rpc[c] = "check"
       THEN /\ rpc' = [rpc EXCEPT ![c] =
                         IF OverCapacity(log_tail) THEN "pop" ELSE "read"]
            /\ UNCHANGED <<log_tail, pipe>>
       ELSE \* pop(0); on an empty list IndexError, swallowed, ends the thread
            /\ log_tail' = IF log_tail = <<>> THEN log_tail ELSE Tail(log_tail)
            /\ rpc' = [rpc EXCEPT ![c] = IF log_tail = <<>> THEN "done" ELSE "read"]
            /\ UNCHANGED pipe
    /\ UNCHANGED <<process, started_at, lock, child, wopen, written,
                   bin_exists, stop_failed, now, budget, thrVars, server>>

\* ---- calls and returns ---------------------------------------------------
\* where a thread continues after a manager call: the HTTP server thread goes
\* back to its loop, a cleanup thread goes on to server.shutdown()
AfterCall(t) == IF t = MainThread THEN "idle" ELSE "cl_shutdown"

Result(t, o, k, s, p) ==
    [NoRes EXCEPT !.op = o, !.kind = k, !.success = s, !.pid = p,
                  !.sent = loc[t].sent]

\* the call returns r (or, when r.fault, raises instead of returning)
Return(t, r) ==
    /\ pc' = [pc EXCEPT ![t] = AfterCall(t)]
    /\ op' = [op EXCEPT ![t] = "none"]
    /\ loc' = [loc EXCEPT ![t] = NoLoc]
    /\ res' = [res EXCEPT ![t] = r]

Goto(t, label) ==
    /\ pc' = [pc EXCEPT ![t] = label]
    /\ UNCHANGED <<op, loc, res>>

\* the first step of a call: the caller has dropped the result of its last call
Enter(t, label) ==
    /\ pc' = [pc EXCEPT ![t] = label]
    /\ res' = [res EXCEPT ![t] = NoRes]
    /\ loc' = [loc EXCEPT ![t].before = <<process, started_at>>]
    /\ UNCHANGED op

\* main(), lines 373-388: the auto-start (if any) has returned; install the
\* signal handlers and enter serve_forever
Serve ==
    /\ server = "starting"
    /\ pc[MainThread] = "idle"
    /\ server' = "serving"
    /\ UNCHANGED <<mgrVars, osVars, rpc, bin_exists, stop_failed, now, budget, thrVars>>

\* do_GET / do_POST: the HTTP server thread takes a request and routes it
Request(o) ==
    /\ server = "serving"
    /\ pc[MainThread] = "idle"
    /\ budget.ops > 0
    /\ budget' = [budget EXCEPT !.ops = @ - 1]
    /\ pc' = [pc EXCEPT ![MainThread] = o]
    /\ op' = [op EXCEPT ![MainThread] = o]
    /\ UNCHANGED <<mgrVars, osVars, rpc, bin_exists, stop_failed, now, loc, res, server>>

\* ---- start() ---------------------------------------------------------------
\* (mutant: the liveness test inverted)
StartGuardInverted == process # None /\ ~Poll(process)

\* line 83: self._process and self._process.poll() is None
StartGuard == ProcessLive

Start(t) ==
    /\ Up
    /\ pc[t] = "start"
    /\ lock = Free
    /\ IF StartGuard
       THEN /\ Return(t, Result(t, "start", "already_running", FALSE, process))
            /\ UNCHANGED lock
       ELSE /\ lock' = t
            /\ Enter(t, "sp_check")
    /\ UNCHANGED <<process, started_at, log_tail, osVars, rpc, bin_exists, stop_failed, now,
                   budget, server>>

\* ---- _start_process ----------------------------------------------------------
\* (mutant: the binary is not checked)
BinaryFoundUnchecked == TRUE

\* line 113: os.path.isfile(self.picoclaw_bin)
BinaryFound == bin_exists

\* outcomes of the .env lookup and _load_env_file: no file, loaded, open/parse error
EnvOutcomes == {"absent", "loaded", "error"}

\* lines 113-130: binary check, env file, self._log_tail.clear()
StartProcessPrepare(t) ==
    /\ Up
    /\ pc[t] = "sp_check"
    /\ IF ~BinaryFound
       THEN /\ Return(t, Result(t, op[t], "binary_not_found", FALSE, None))
            /\ lock' = Free
            /\ UNCHANGED <<log_tail, server>>
       ELSE \E env \in EnvOutcomes :
              IF env = "error"
              THEN \* raised outside the try block: propagates out of the call
                   \* (out of main() too, when the call is the auto-start)
                   /\ Return(t, [Result(t, op[t], "env_error", FALSE, None)
                                   EXCEPT !.fault = TRUE])
                   /\ lock' = Free
                   /\ server' = IF server = "starting" THEN "stopped" ELSE server
                   /\ UNCHANGED log_tail
              ELSE /\ log_tail' = <<>>
                   /\ Goto(t, "sp_popen")
                   /\ UNCHANGED <<lock, server>>
    /\ UNCHANGED <<process, started_at, osVars, rpc, bin_exists, stop_failed, now, budget>>

\* the next child to be launched
NextChild == Cardinality({c \in Children : child[c] # "unborn"}) + 1

\* lines 131-137: subprocess.Popen(...), in a new process group
StartProcessPopen(t) ==
    /\ Up
    /\ pc[t] = "sp_popen"
    /\ \E ok \in BOOLEAN :
         IF ok
         THEN /\ bin_exists
              /\ NextChild \in Children
              /\ child' = [child EXCEPT ![NextChild] = "live"]
              /\ wopen' = [wopen EXCEPT ![NextChild] = TRUE]
              /\ process' = NextChild
              /\ now' = now + 1     \* launching takes time
              /\ pc' = [pc EXCEPT ![t] = "sp_started"]
              /\ UNCHANGED <<lock, op, loc, res>>
         ELSE \* Popen raises: caught by except Exception
              /\ Return(t, Result(t, op[t], "launch_failed", FALSE, None))
              /\ lock' = Free
              /\ UNCHANGED <<child, wopen, process, now>>
    /\ UNCHANGED <<started_at, log_tail, pipe, written, rpc, bin_exists, stop_failed, budget, server>>

\* lines 138-155: self._started_at = now, start the reader thread, return
StartProcessStarted(t) ==
    /\ Up
    /\ pc[t] = "sp_started"
    /\ started_at' = now
    /\ \E ok \in BOOLEAN :
         IF ok
         THEN /\ rpc' = [rpc EXCEPT ![process] = "read"]
              /\ Return(t, Result(t, op[t], "started", TRUE, process))
         ELSE \* Thread.start() raises: caught by except Exception
              /\ Return(t, Result(t, op[t], "launch_failed", FALSE, None))
              /\ UNCHANGED rpc
    /\ lock' = Free
    /\ UNCHANGED <<process, log_tail, osVars, bin_exists, stop_failed, now, budget, server>>

\* ---- stop() and restart() ------------------------------------------------------
\* (mutant: the handle is tested, its liveness is not)
StopGuardNoPoll == process = None

\* line 94: self._process is None or self._process.poll() is not None
StopGuard == process = None \/ ~Poll(process)

Stop(t) ==
    /\ Up
    /\ pc[t] = "stop"
    /\ lock = Free
    /\ IF StopGuard
       THEN /\ Return(t, Result(t, "stop", "not_running", TRUE, None))
            /\ UNCHANGED lock
       ELSE /\ lock' = t
            /\ Enter(t, "st_term")
    /\ UNCHANGED <<process, started_at, log_tail, osVars, rpc, bin_exists, stop_failed, now,
                   budget, server>>

RestartGuard == ProcessLive

\* (mutant: restart() runs its phases without taking the lock)
RestartUnlocked(t) ==
    /\ Up
    /\ pc[t] = "restart"
    /\ Enter(t, IF RestartGuard THEN "st_term" ELSE "sp_check")
    /\ UNCHANGED <<process, started_at, log_tail, lock, osVars, rpc, bin_exists,
                   stop_failed, now, budget, server>>

\* lines 103-105: with self._lock: if self._process and ... poll() is None
Restart(t) ==
    /\ Up
    /\ pc[t] = "restart"
    /\ lock = Free
    /\ lock' = t
    /\ Enter(t, IF RestartGuard THEN "st_term" ELSE "sp_check")
    /\ UNCHANGED <<process, started_at, log_tail, osVars, rpc, bin_exists, stop_failed, now,
                   budget, server>>

\* ---- _stop_process ------------------------------------------------------------
\* _stop_process returns its result dict: stop() returns it to the caller,
\* restart() drops it, sleeps and goes on to _start_process
StopProcessReturn(t, k, s) ==
    /\ stop_failed' = (stop_failed \/ ~s)
    /\ IF op[t] = "stop"
       THEN /\ Return(t, Result(t, "stop", k, s, loc[t].pid))
            /\ lock' = Free
       ELSE /\ pc' = [pc EXCEPT ![t] = "sp_check"]
            /\ loc' = [loc EXCEPT ![t] = [NoLoc EXCEPT !.before = loc[t].before]]
            /\ UNCHANGED <<op, res, lock>>

\* os.killpg(os.getpgid(pid), s) went through: the group of child c got signal s
Deliver(t, c, s) ==
    loc' = [loc EXCEPT ![t].pid = c, ![t].sent = Append(@, <<s, c>>), ![t].i = 0]

\* lines 165-168: pid = self._process.pid; killpg(getpgid(pid), SIGTERM)
StopProcessTerm(t) ==
    /\ Up
    /\ pc[t] = "st_term"
    /\ \E ok \in BOOLEAN :
         IF ok
         THEN /\ Deliver(t, process, "TERM")
              /\ pc' = [pc EXCEPT ![t] = "st_poll"]
              /\ UNCHANGED <<op, res, lock, stop_failed>>
         ELSE \* OSError from getpgid/killpg: caught by except Exception
              StopProcessReturn(t, "stop_failed", FALSE)
    /\ UNCHANGED <<process, started_at, log_tail, child, wopen, pipe, written,
                   rpc, bin_exists, now, budget, server>>

\* (mutant: the loop gives up one poll early)
PollsExhaustedEarly(i) == i >= GracePolls - 1

\* the for loop ran all its iterations without break: the else branch runs
PollsExhausted(i) == i = GracePolls

\* lines 170-173: one iteration: poll, break if exited, else sleep(0.1)
StopProcessPoll(t) ==
    /\ Up
    /\ pc[t] = "st_poll"
    /\ IF ~Poll(loc[t].pid)
       THEN /\ pc' = [pc EXCEPT ![t] = "st_clear"]
            /\ loc' = [loc EXCEPT ![t].i = 0, ![t].sawexit = TRUE]
       ELSE /\ pc' = [pc EXCEPT ![t] =
                        IF PollsExhausted(loc[t].i + 1) THEN "st_kill" ELSE "st_poll"]
            /\ loc' = [loc EXCEPT ![t].i = @ + 1]
    /\ UNCHANGED <<mgrVars, osVars, rpc, bin_exists, stop_failed, now, budget, op, res, server>>

\* line 176: killpg(getpgid(pid), SIGKILL)
StopProcessKill(t) ==
    /\ Up
    /\ pc[t] = "st_kill"
    /\ \E ok \in BOOLEAN :
         IF ok
         THEN /\ Deliver(t, loc[t].pid, "KILL")
              /\ pc' = [pc EXCEPT ![t] = "st_wait"]
              /\ UNCHANGED <<op, res, lock, stop_failed>>
         ELSE StopProcessReturn(t, "stop_failed", FALSE)
    /\ UNCHANGED <<process, started_at, log_tail, child, wopen, pipe, written,
                   rpc, bin_exists, now, budget, server>>

\* (mutant: the wait's timeout is ignored)
StopProcessWaitUnchecked(t) ==
    /\ Up
    /\ pc[t] = "st_wait"
    /\ Goto(t, "st_clear")
    /\ UNCHANGED <<mgrVars, osVars, rpc, bin_exists, stop_failed, now, budget, server>>

\* (mutant: wait() without a timeout: blocks until the child has exited)
StopProcessWaitNoTimeout(t) ==
    /\ Up
    /\ pc[t] = "st_wait"
    /\ ~Poll(loc[t].pid)
    /\ Goto(t, "st_clear")
    /\ UNCHANGED <<mgrVars, osVars, rpc, bin_exists, stop_failed, now, budget, server>>

\* line 177: self._process.wait(timeout=3): returns once the child has exited,
\* raises TimeoutExpired if it has not
StopProcessWait(t) ==
    /\ Up
    /\ pc[t] = "st_wait"
    /\ IF ~Poll(loc[t].pid)
       THEN /\ Goto(t, "st_clear")
            /\ UNCHANGED <<lock, stop_failed>>
       ELSE StopProcessReturn(t, "stop_failed", FALSE)
    /\ UNCHANGED <<process, started_at, log_tail, osVars, rpc, bin_exists, now,
                   budget, server>>

\* line 180: self._process = None
StopProcessClear(t) ==
    /\ Up
    /\ pc[t] = "st_clear"
    /\ process' = None
    /\ Goto(t, "st_clear2")
    /\ UNCHANGED <<started_at, log_tail, lock, osVars, rpc, bin_exists, stop_failed, now,
                   budget, server>>

\* lines 181-185: self._started_at = None; return success
StopProcessCleared(t) ==
    /\ Up
    /\ pc[t] = "st_clear2"
    /\ started_at' = None
    /\ StopProcessReturn(t, "stopped", TRUE)
    /\ UNCHANGED <<process, log_tail, osVars, rpc, bin_exists, now, budget, server>>

\* ---- is_running and status() ----------------------------------------------------
\* the property is_running: under the lock, handle present and poll() is None
IsRunning == ProcessLive

\* line 67: running = self.is_running (the caller still holds the report of
\* the status call before this one, if that was its last call)
Status(t) ==
    /\ Up
    /\ pc[t] = "status"
    /\ lock = Free
    /\ pc' = [pc EXCEPT ![t] = "su_pid"]
    /\ loc' = [loc EXCEPT ![t].running = IsRunning,
                          ![t].polled = IF IsRunning THEN process ELSE None,
                          ![t].before = <<process, started_at>>]
    /\ res' = [res EXCEPT ![t] = IF @.op = "status" THEN @ ELSE NoRes]
    /\ UNCHANGED <<mgrVars, osVars, rpc, bin_exists, stop_failed, now, budget, op, server>>

\* line 70, the condition: self._process and running
StatusPidCond(t) ==
    /\ Up
    /\ pc[t] = "su_pid"
    /\ Goto(t, IF process # None /\ loc[t].running THEN "su_pid2" ELSE "su_sa")
    /\ UNCHANGED <<mgrVars, osVars, rpc, bin_exists, stop_failed, now, budget, server>>

\* line 70, the value: self._process.pid (AttributeError if it is None by now)
StatusPid(t) ==
    /\ Up
    /\ pc[t] = "su_pid2"
    /\ IF process = None
       THEN Return(t, [Result(t, "status", "attribute_error", FALSE, None)
                         EXCEPT !.fault = TRUE])
       ELSE /\ pc' = [pc EXCEPT ![t] = "su_sa"]
            /\ loc' = [loc EXCEPT ![t].pid = process]
            /\ UNCHANGED <<op, res>>
    /\ UNCHANGED <<mgrVars, osVars, rpc, bin_exists, stop_failed, now, budget, server>>

\* line 71: "started_at": self._started_at
StatusStartedAt(t) ==
    /\ Up
    /\ pc[t] = "su_sa"
    /\ pc' = [pc EXCEPT ![t] = "su_logs"]
    /\ loc' = [loc EXCEPT ![t].sa = started_at]
    /\ UNCHANGED <<mgrVars, osVars, rpc, bin_exists, stop_failed, now, budget, op, res, server>>

Report(t, up) ==
    [NoRes EXCEPT !.op = "status", !.kind = "report", !.running = loc[t].running,
                  !.pid = loc[t].pid, !.started_at = loc[t].sa, !.uptime = up,
                  !.logs = loc[t].logs, !.polled = loc[t].polled,
                  !.snap = <<loc[t].before[1], loc[t].before[2], loc[t].polled>>]

\* (mutant: the report takes the recent lines out of the buffer)
StatusLogsDrain(t) ==
    /\ Up
    /\ pc[t] = "su_logs"
    /\ pc' = [pc EXCEPT ![t] = "su_up"]
    /\ loc' = [loc EXCEPT ![t].logs = LastLogs(log_tail)]
    /\ log_tail' = <<>>
    /\ UNCHANGED <<process, started_at, lock, osVars, rpc, bin_exists, stop_failed,
                   now, budget, op, res, server>>

\* line 74: "recent_logs": self._log_tail[-20:]
StatusLogs(t) ==
    /\ Up
    /\ pc[t] = "su_logs"
    /\ pc' = [pc EXCEPT ![t] = "su_up"]
    /\ loc' = [loc EXCEPT ![t].logs = LastLogs(log_tail)]
    /\ UNCHANGED <<mgrVars, osVars, rpc, bin_exists, stop_failed, now, budget, op, res, server>>

\* line 76: if running and self._started_at; else return info
StatusUptimeCond(t) ==
    /\ Up
    /\ pc[t] = "su_up"
    /\ IF loc[t].running /\ started_at # None
       THEN Goto(t, "su_up2")
       ELSE Return(t, Report(t, None))
    /\ UNCHANGED <<mgrVars, osVars, rpc, bin_exists, stop_failed, now, budget, server>>

\* lines 77-79: now - fromisoformat(self._started_at) (TypeError if it is None
\* by now); return info
StatusUptime(t) ==
    /\ Up
    /\ pc[t] = "su_up2"
    /\ IF started_at = None
       THEN Return(t, [Result(t, "status", "type_error", FALSE, None)
                         EXCEPT !.fault = TRUE])
       ELSE Return(t, Report(t, now - started_at))
    /\ UNCHANGED <<mgrVars, osVars, rpc, bin_exists, stop_failed, now, budget, server>>

\* ---- shutdown: main(), shutdown_handler, _cleanup --------------------------------
\* SIGINT/SIGTERM: shutdown_handler starts a thread running _cleanup
Signal(t) ==
    /\ server \in {"serving", "shutdown"}
    /\ t \in Cleanups
    /\ pc[t] = "unborn"
    /\ \A u \in Cleanups : u < t => pc[u] # "unborn"
    /\ budget.ops > 0
    /\ budget' = [budget EXCEPT !.ops = @ - 1]
    /\ Goto(t, "cl_check")
    /\ UNCHANGED <<mgrVars, osVars, rpc, bin_exists, stop_failed, now, server>>

\* (mutant: _cleanup goes straight to server.shutdown())
CleanupCheckNoStop(t) ==
    /\ Up
    /\ pc[t] = "cl_check"
    /\ lock = Free
    /\ pc' = [pc EXCEPT ![t] = "cl_shutdown"]
    /\ UNCHANGED <<mgrVars, osVars, rpc, bin_exists, stop_failed, now, budget, op,
                   loc, res, server>>

\* _cleanup: if manager.is_running: manager.stop()
CleanupCheck(t) ==
    /\ Up
    /\ pc[t] = "cl_check"
    /\ lock = Free
    /\ pc' = [pc EXCEPT ![t] = IF IsRunning THEN "stop" ELSE "cl_shutdown"]
    /\ op' = [op EXCEPT ![t] = IF IsRunning THEN "stop" ELSE "none"]
    /\ UNCHANGED <<mgrVars, osVars, rpc, bin_exists, stop_failed, now, budget, loc, res, server>>

\* _cleanup: server.shutdown() sets the request flag and waits for the loop
CleanupShutdown(t) ==
    /\ Up
    /\ pc[t] = "cl_shutdown"
    /\ server' = "shutdown"
    /\ pc' = [pc EXCEPT ![t] = "cl_wait"]
    /\ res' = [res EXCEPT ![t] = NoRes]     \* stop()'s result was dropped
    /\ UNCHANGED <<mgrVars, osVars, rpc, bin_exists, stop_failed, now, budget, op, loc>>

\* serve_forever sees the flag between requests and returns; main() ends, and
\* with it the process and its daemon threads
ServerExit ==
    /\ server = "shutdown"
    /\ pc[MainThread] = "idle"
    /\ server' = "stopped"
    /\ pc' = [pc EXCEPT ![MainThread] = "exited"]
    /\ UNCHANGED <<mgrVars, osVars, rpc, bin_exists, stop_failed, now, budget, op, loc, res>>

Next ==
    \/ BinaryRemoved
    \/ \E c \in Children : ChildWrite(c)
    \/ \E c \in Children : ChildExit(c)
    \/ \E c \in Children : StreamClose(c)
    \/ \E c \in Children : ReadOutput(c)
    \/ Serve
    \/ \E o \in {"start", "stop", "restart", "status"} : Request(o)
    \/ \E t \in Threads : Start(t)
    \/ \E t \in Threads : StartProcessPrepare(t)
    \/ \E t \in Threads : StartProcessPopen(t)
    \/ \E t \in Threads : StartProcessStarted(t)
    \/ \E t \in Threads : Stop(t)
    \/ \E t \in Threads : Restart(t)
    \/ \E t \in Threads : StopProcessTerm(t)
    \/ \E t \in Threads : StopProcessPoll(t)
    \/ \E t \in Threads : StopProcessKill(t)
    \/ \E t \in Threads : StopProcessWait(t)
    \/ \E t \in Threads : StopProcessClear(t)
    \/ \E t \in Threads : StopProcessCleared(t)
    \/ \E t \in Threads : Status(t)
    \/ \E t \in Threads : StatusPidCond(t)
    \/ \E t \in Threads : StatusPid(t)
    \/ \E t \in Threads : StatusStartedAt(t)
    \/ \E t \in Threads : StatusLogs(t)
    \/ \E t \in Threads : StatusUptimeCond(t)
    \/ \E t \in Threads : StatusUptime(t)
    \/ \E t \in Threads : Signal(t)
    \/ \E t \in Threads : CleanupCheck(t)
    \/ \E t \in Threads : CleanupShutdown(t)
    \/ ServerExit

Spec == Init /\ [][Next]_vars

\* ---- fair scheduling: a thread that can take a step eventually takes one -------
ThreadStep(t) ==
    \/ Start(t)
    \/ StartProcessPrepare(t)
    \/ StartProcessPopen(t)
    \/ StartProcessStarted(t)
    \/ Stop(t)
    \/ Restart(t)
    \/ StopProcessTerm(t)
    \/ StopProcessPoll(t)
    \/ StopProcessKill(t)
    \/ StopProcessWait(t)
    \/ StopProcessClear(t)
    \/ StopProcessCleared(t)
    \/ Status(t)
    \/ StatusPidCond(t)
    \/ StatusPid(t)
    \/ StatusStartedAt(t)
    \/ StatusLogs(t)
    \/ StatusUptimeCond(t)
    \/ StatusUptime(t)
    \/ CleanupCheck(t)
    \/ CleanupShutdown(t)

\* the supervisor with a child that writes nothing, under that scheduling
InitFair == InitWith([ops |-> MaxOps, lines |-> 0, ticks |-> 0])

NextFair ==
    \/ BinaryRemoved
    \/ \E c \in Children : ChildExit(c)
    \/ \E c \in Children : StreamClose(c)
    \/ \E c \in Children : ReadOutput(c)
    \/ Serve
    \/ \E o \in {"start", "stop", "restart", "status"} : Request(o)
    \/ \E t \in Threads : Start(t)
    \/ \E t \in Threads : StartProcessPrepare(t)
    \/ \E t \in Threads : StartProcessPopen(t)
    \/ \E t \in Threads : StartProcessStarted(t)
    \/ \E t \in Threads : Stop(t)
    \/ \E t \in Threads : Restart(t)
    \/ \E t \in Threads : StopProcessTerm(t)
    \/ \E t \in Threads : StopProcessPoll(t)
    \/ \E t \in Threads : StopProcessKill(t)
    \/ \E t \in Threads : StopProcessWait(t)
    \/ \E t \in Threads : StopProcessClear(t)
    \/ \E t \in Threads : StopProcessCleared(t)
    \/ \E t \in Threads : Status(t)
    \/ \E t \in Threads : StatusPidCond(t)
    \/ \E t \in Threads : StatusPid(t)
    \/ \E t \in Threads : StatusStartedAt(t)
    \/ \E t \in Threads : StatusLogs(t)
    \/ \E t \in Threads : StatusUptimeCond(t)
    \/ \E t \in Threads : StatusUptime(t)
    \/ \E t \in Threads : Signal(t)
    \/ \E t \in Threads : CleanupCheck(t)
    \/ \E t \in Threads : CleanupShutdown(t)
    \/ ServerExit

FairSpec ==
    InitFair /\ [][NextFair]_vars /\ \A t \in Threads : WF_vars(ThreadStep(t))

\* ---- the supervisor with a talkative child and no requests: SpecLog ----------
InitLog == InitWith([ops |-> 0, lines |-> LogLines, ticks |-> 0])

NextLog ==
    \/ BinaryRemoved
    \/ \E c \in Children : ChildWrite(c)
    \/ \E c \in Children : ChildExit(c)
    \/ \E c \in Children : StreamClose(c)
    \/ \E c \in Children : ReadOutput(c)
    \/ Serve
    \/ \E t \in Threads : Start(t)
    \/ \E t \in Threads : StartProcessPrepare(t)
    \/ \E t \in Threads : StartProcessPopen(t)
    \/ \E t \in Threads : StartProcessStarted(t)

SpecLog == InitLog /\ [][NextLog]_vars

\* ---- status polling while time passes and shutdown signals arrive: SpecStatus --
InitStatus == InitWith([ops |-> MaxOps + 1, lines |-> MaxLines, ticks |-> MaxTicks])

NextStatus ==
    \/ Tick
    \/ BinaryRemoved
    \/ \E c \in Children : ChildWrite(c)
    \/ \E c \in Children : ChildExit(c)
    \/ \E c \in Children : StreamClose(c)
    \/ \E c \in Children : ReadOutput(c)
    \/ Serve
    \/ \E o \in {"status"} : Request(o)
    \/ \E t \in Threads : Start(t)
    \/ \E t \in Threads : StartProcessPrepare(t)
    \/ \E t \in Threads : StartProcessPopen(t)
    \/ \E t \in Threads : StartProcessStarted(t)
    \/ \E t \in Threads : Stop(t)
    \/ \E t \in Threads : StopProcessTerm(t)
    \/ \E t \in Threads : StopProcessPoll(t)
    \/ \E t \in Threads : StopProcessKill(t)
    \/ \E t \in Threads : StopProcessWait(t)
    \/ \E t \in Threads : StopProcessClear(t)
    \/ \E t \in Threads : StopProcessCleared(t)
    \/ \E t \in Threads : Status(t)
    \/ \E t \in Threads : StatusPidCond(t)
    \/ \E t \in Threads : StatusPid(t)
    \/ \E t \in Threads : StatusStartedAt(t)
    \/ \E t \in Threads : StatusLogs(t)
    \/ \E t \in Threads : StatusUptimeCond(t)
    \/ \E t \in Threads : StatusUptime(t)
    \/ \E t \in Threads : Signal(t)
    \/ \E t \in Threads : CleanupCheck(t)
    \/ \E t \in Threads : CleanupShutdown(t)
    \/ ServerExit

SpecStatus == InitStatus /\ [][NextStatus]_vars

\* ---- properties ------------------------------------------------------------
LiveChildren == {c \in Children : child[c] = "live"}

StopSteps == {"st_term", "st_poll", "st_kill", "st_wait", "st_clear", "st_clear2"}

\* C1: in every reachable state at most one child launched by the supervisor
\* is live.
C1_AtMostOneLiveChild == Cardinality(LiveChildren) <= 1

\* C2: when the stop phase of restart() fails (a signal call errors or the wait
\* after the forced kill times out), restart() returns that failure as a
\* non-success result at once, without entering the start sequence.
C2_RestartAbortsOnStopFailure ==
    [][\A t \in Threads :
         ( /\ op[t] = "restart"
           /\ pc[t] \in {"st_term", "st_kill", "st_wait"}
           /\ pc'[t] \notin {pc[t], "st_poll", "st_wait", "st_clear"} )
         => ( /\ pc'[t] = AfterCall(t)
              /\ res'[t].kind = "stop_failed"
              /\ ~res'[t].success )]_vars

\* C3: start() called while the handle exists and its child is live returns
\* success=false (with the child's pid) and changes nothing: no child is
\* launched, handle and startedAt keep their values, the log buffer is not
\* cleared.
C3_StartWhileLiveNoEffect ==
    [][\A t \in Threads :
         ( /\ pc[t] = "start"
           /\ pc'[t] # "start"
           /\ process # None
           /\ child[process] = "live" )
         => ( /\ pc'[t] = AfterCall(t)
              /\ res'[t].op = "start"
              /\ ~res'[t].success
              /\ ~res'[t].fault
              /\ res'[t].pid = process
              /\ UNCHANGED <<process, started_at, log_tail, child, wopen, rpc, lock>> )]_vars

\* C3 witness: a start() has been refused while a child with captured output
\* was live.
C3_Witness ==
    \E t \in Threads :
        /\ res[t].op = "start"
        /\ res[t].kind = "already_running"
        /\ ProcessLive
        /\ log_tail # <<>>

\* C4: stop() called when no handle exists or the handle's child has exited
\* returns success=true at once, sends no signal and leaves handle, startedAt,
\* the log buffer and the children as they are (so that repeating it gives the
\* same result and state).
C4_StopWhenStoppedNoop ==
    [][\A t \in Threads :
         ( /\ pc[t] = "stop"
           /\ pc'[t] # "stop"
           /\ (process = None \/ child[process] # "live") )
         => ( /\ pc'[t] = AfterCall(t)
              /\ res'[t].op = "stop"
              /\ res'[t].success
              /\ ~res'[t].fault
              /\ res'[t].sent = <<>>
              /\ UNCHANGED <<process, started_at, log_tail, child, wopen, rpc, lock>> )]_vars

\* C4 witness: a stop() has returned "not running" while the handle of an
\* exited child was still in place.
C4_Witness ==
    \E t \in Threads :
        /\ res[t].op = "stop"
        /\ res[t].kind = "not_running"
        /\ process # None
        /\ child[process] = "exited"
        /\ started_at # None

\* C5: a stop() that went into _stop_process returns success=true only when
\* the child has exited, and then handle and startedAt are both None and the
\* result names the child stopped; it returns success=false otherwise, and then
\* handle and startedAt are what they were when the call took the lock.
C5_StopResult ==
    [][\A t \in Threads :
         ( /\ op[t] = "stop"
           /\ pc[t] \in StopSteps
           /\ pc'[t] = AfterCall(t) )
         => ( /\ res'[t].op = "stop"
              /\ ~res'[t].fault
              /\ res'[t].success =>
                    /\ child'[loc[t].before[1]] = "exited"
                    /\ process' = None
                    /\ started_at' = None
                    /\ res'[t].pid = loc[t].before[1]
              /\ ~res'[t].success =>
                    /\ res'[t].kind = "stop_failed"
                    /\ <<process', started_at'>> = loc[t].before
                    /\ process' # None )]_vars

\* C5 witness: a stop() has failed after the forced kill (the wait timed out)
\* and the handle and startedAt are still set.
C5_Witness ==
    \E t \in Threads :
        /\ res[t].op = "stop"
        /\ res[t].kind = "stop_failed"
        /\ Len(res[t].sent) = 2
        /\ process # None
        /\ started_at # None

\* the signals of one _stop_process call: nothing, SIGTERM, or SIGTERM and then
\* SIGKILL to the same process group
SignalsInOrder(sent) ==
    \/ sent = <<>>
    \/ Len(sent) = 1 /\ sent[1][1] = "TERM"
    \/ /\ Len(sent) = 2
       /\ sent[1][1] = "TERM"
       /\ sent[2][1] = "KILL"
       /\ sent[2][2] = sent[1][2]

\* C6: within one stop call SIGTERM goes first; SIGKILL goes to the same group
\* and only after all 50 polls saw the child live; once a poll has seen the
\* child exited no SIGKILL is sent.
C6_SignalOrder ==
    \A t \in Threads :
        /\ SignalsInOrder(loc[t].sent)
        /\ SignalsInOrder(res[t].sent)
        /\ pc[t] = "st_poll" => (Len(loc[t].sent) = 1 /\ loc[t].i < GracePolls)
        /\ pc[t] = "st_kill" =>
              (Len(loc[t].sent) = 1 /\ loc[t].i = GracePolls /\ ~loc[t].sawexit)
        /\ Len(loc[t].sent) = 2 => (~loc[t].sawexit /\ pc[t] \in StopSteps)
        /\ loc[t].sawexit => Len(loc[t].sent) = 1

\* C6 witness: a stop call has sent SIGKILL after SIGTERM.
C6_Witness == \E t \in Threads : Len(loc[t].sent) = 2

\* C7: when the binary is missing, start() (having found no live child) returns
\* success=false without launching anything and without changing handle,
\* startedAt or the log buffer; and the status() call that follows it on the
\* same thread finds running=false and reports it.
C7_BinaryNotFound ==
    [][\A t \in Threads :
         /\ ( /\ op[t] = "start"
              /\ pc[t] = "sp_check"
              /\ pc'[t] # "sp_check"
              /\ ~bin_exists )
            => ( /\ pc'[t] = AfterCall(t)
                 /\ res'[t].op = "start"
                 /\ res'[t].kind = "binary_not_found"
                 /\ ~res'[t].success
                 /\ ~res'[t].fault
                 /\ <<process', started_at'>> = loc[t].before
                 /\ UNCHANGED <<process, started_at, log_tail, child, wopen, rpc>> )
         /\ ( /\ pc[t] = "status"
              /\ pc'[t] # "status"
              /\ res[t].op = "start"
              /\ res[t].kind = "binary_not_found" )
            => ~loc'[t].running
         /\ ( /\ op[t] = "status"
              /\ pc'[t] = AfterCall(t)
              /\ pc[t] # pc'[t]
              /\ ~res'[t].fault )
            => res'[t].running = loc[t].running]_vars

\* C7 witness: start() has failed for want of the binary with output in the log
\* buffer, and the same thread's status() call is about to run.
C7_Witness ==
    \E t \in Threads :
        /\ res[t].op = "start"
        /\ res[t].kind = "binary_not_found"
        /\ pc[t] = "status"
        /\ log_tail # <<>>

\* C8: a status report with running=true carries the pid of the child that
\* is_running found live, and a startedAt.
C8_StatusSnapshot ==
    \A t \in Threads :
        (res[t].op = "status" /\ ~res[t].fault /\ res[t].running)
        => ( /\ res[t].pid # None
             /\ res[t].pid = res[t].polled
             /\ res[t].started_at # None )

\* C9: no call of start(), stop(), restart() or status() ends in an exception
\* instead of a result.
C9_NoFault == \A t \in Threads : ~res[t].fault

\* C10: the log buffer never holds more than 100 entries.
C10_LogBound == Len(log_tail) <= max_log_lines

Min(a, b) == IF a <= b THEN a ELSE b

\* the last min(n, 100) of the lines 1..n of child c, oldest first
Ring(c, n) ==
    [i \in 1..Min(n, max_log_lines) |-> <<c, n - Min(n, max_log_lines) + i>>]

\* C11: with one child writing, whenever its reader has finished with the n
\* lines it has read so far (it is back at readline, or has ended), the log
\* buffer holds exactly the last min(n, 100) of them in the order written.
C11_FifoRing ==
    \A c \in Children :
        rpc[c] \in {"read", "done"} => log_tail = Ring(c, written[c] - pipe[c])

\* C11 witness: the reader has taken in at least 102 lines, the buffer is full
\* and the two oldest lines are gone.
C11_Witness ==
    \E c \in Children :
        /\ rpc[c] = "read"
        /\ written[c] - pipe[c] >= max_log_lines + 2
        /\ Len(log_tail) = max_log_lines
        /\ log_tail[1][2] >= 3

StatusSteps == {"su_pid", "su_pid2", "su_sa", "su_logs", "su_up", "su_up2"}

\* C12: whenever a status() call is between its liveness check and its return
\* (where it reads handle and startedAt), handle is None exactly if startedAt
\* is None.
C12_SetClearedTogether ==
    \A t \in Threads :
        pc[t] \in StatusSteps => ((process = None) <=> (started_at = None))

\* <<_process, _started_at, live child>> as they are now
Snapshot == <<process, started_at, IF ProcessLive THEN process ELSE None>>

\* C13: no step of a status() call changes handle, startedAt or the log
\* buffer; and when a status() call returns a report to a caller whose last
\* call was a status() too, and handle, startedAt and the child's liveness are
\* what they were when that earlier call began, the two reports have the same
\* running, pid and startedAt and the later uptime is not the smaller.
C13_StatusReadOnly ==
    [][\A t \in Threads :
         /\ (pc[t] \in StatusSteps \cup {"status"} /\ pc'[t] # pc[t])
            => UNCHANGED <<process, started_at, log_tail>>
         /\ ( /\ pc[t] \in StatusSteps
              /\ pc'[t] = AfterCall(t)
              /\ ~res'[t].fault
              /\ res[t].op = "status"
              /\ ~res[t].fault
              /\ res[t].snap = Snapshot )
            => ( /\ res'[t].running = res[t].running
                 /\ res'[t].pid = res[t].pid
                 /\ res'[t].started_at = res[t].started_at
                 /\ res'[t].uptime >= res[t].uptime )]_vars

\* C13 witness: a second status() call in a row is about to return its uptime
\* for a running child, nothing has changed since the first call began, time
\* has passed since the first report and the log buffer is not empty.
C13_Witness ==
    \E t \in Threads :
        /\ pc[t] = "su_up2"
        /\ res[t].op = "status"
        /\ ~res[t].fault
        /\ res[t].running
        /\ res[t].snap = Snapshot
        /\ started_at # None
        /\ now - started_at > res[t].uptime
        /\ log_tail # <<>>

StartSteps == {"sp_check", "sp_popen", "sp_started"}

CriticalSteps == StopSteps \cup StartSteps

\* C14: a thread inside restart() (stop phase, between the phases, start phase)
\* holds the lock and keeps it until it returns; no other thread is inside
\* start(), stop() or restart() meanwhile, and no step of another thread
\* changes handle or startedAt or launches a child.
C14_RestartHoldsLock ==
    [][\A t \in Threads :
         (op[t] = "restart" /\ pc[t] \in CriticalSteps)
         => ( /\ lock = t
              /\ \A u \in Threads \ {t} : pc[u] \notin CriticalSteps
              /\ pc'[t] \in CriticalSteps => lock' = t
              /\ pc'[t] = pc[t] =>
                    /\ UNCHANGED <<process, started_at>>
                    /\ \A c \in Children : child[c] = "unborn" => child'[c] = "unborn" )]_vars

\* C14 witness: restart() has finished its stop phase and not yet begun its
\* start phase, while a cleanup thread that found the child running waits to
\* stop it.
C14_Witness ==
    \E u \in Cleanups :
        /\ op[MainThread] = "restart"
        /\ pc[MainThread] = "sp_check"
        /\ loc[MainThread].before[1] # None
        /\ pc[u] = "stop"

\* C15: a status report with running=false carries no startedAt.
C15_ExitObserved ==
    \A t \in Threads :
        (res[t].op = "status" /\ ~res[t].fault /\ ~res[t].running)
        => res[t].started_at = None

\* the reader threads that have not ended
ActiveReaders == {c \in Children : rpc[c] \in {"read", "check", "pop"}}

\* C16: at most one reader thread is active at any time.
C16_OneDrainTask == Cardinality(ActiveReaders) <= 1

\* C18: once the server loop has exited, with no _stop_process call having
\* failed and none cut short, no child is live.
C18_NoChildAfterShutdown ==
    ( /\ server = "stopped"
      /\ ~stop_failed
      /\ \A t \in Threads : pc[t] \notin StopSteps )
    => LiveChildren = {}

\* C19: once a start() or restart() has launched a child and started its
\* reader, every entry of the log buffer is a line of that child (until the
\* next launch).
C19_OnlyNewChildLines ==
    (process # None /\ rpc[process] # "none")
    => \A i \in 1..Len(log_tail) : log_tail[i][1] = process

\* server.shutdown() has been called (or the loop has already returned)
TerminationRequested == server \in {"shutdown", "stopped"}

\* C17: the signal handler only starts a cleanup thread (the thread it
\* interrupts, its call and the lock are left as they are); the cleanup thread
\* calls stop() when it finds the child running and reaches server.shutdown()
\* only from there or from a stop() that has returned; only a cleanup thread
\* requests termination; and every cleanup thread started is followed by the
\* termination request.
C17_ShutdownOrder ==
    /\ [][ /\ \A t \in Cleanups :
                /\ (pc[t] = "unborn" /\ pc'[t] # "unborn")
                   => ( /\ pc'[t] = "cl_check"
                        /\ pc'[MainThread] = pc[MainThread]
                        /\ UNCHANGED <<op, loc, mgrVars, osVars, server>> )
                /\ (pc[t] = "cl_check" /\ pc'[t] # "cl_check")
                   => pc'[t] = IF ProcessLive THEN "stop" ELSE "cl_shutdown"
                /\ (pc[t] # "cl_shutdown" /\ pc'[t] = "cl_shutdown")
                   => \/ pc[t] = "cl_check"
                      \/ op[t] = "stop" /\ res'[t].op = "stop" /\ lock' # t
           /\ (server # "shutdown" /\ server' = "shutdown")
              => \E t \in Cleanups : pc[t] = "cl_shutdown" /\ pc'[t] = "cl_wait"
           /\ (op[MainThread] # "stop" /\ op'[MainThread] = "stop")
              => (pc[MainThread] = "idle" /\ budget'.ops < budget.ops) ]_vars
    /\ \A t \in Cleanups : (pc[t] = "cl_check") ~> TerminationRequested

\* C17 witness: a cleanup thread's stop() of a live child has returned, after
\* SIGTERM, the 50 polls and SIGKILL, and server.shutdown() is its next step.
C17_Witness ==
    \E t \in Cleanups :
        /\ pc[t] = "cl_shutdown"
        /\ res[t].op = "stop"
        /\ Len(res[t].sent) = 2
        /\ server = "serving"

\* C20 (as stated): every call of start(), stop(), restart() or status() that
\* is under way (past its liveness check) eventually returns.
C20_EveryCallReturns ==
    \A t \in Threads :
        (pc[t] \in CriticalSteps \cup StatusSteps) ~> (op[t] = "none")

\* C20 (amended): every call eventually returns unless the server process
\* ends first; the lock is held only by a thread inside start(), stop() or
\* restart(), and a call that ends (by result or by exception) does not keep
\* it; _stop_process polls at most 50 times and sends at most SIGTERM and
\* SIGKILL.
C20_ReturnsOrProcessEnds ==
    /\ [][\A t \in Threads :
             /\ lock' = t => op'[t] \in {"start", "stop", "restart"}
             /\ (op[t] # "none" /\ op'[t] = "none") => lock' # t
             /\ loc'[t].i <= GracePolls
             /\ Len(loc'[t].sent) <= 2 ]_vars
    /\ \A t \in Threads :
          (op[t] # "none") ~> (op[t] = "none" \/ server = "stopped")

\* C20 witness: a stop() whose child survived SIGTERM, 50 polls and SIGKILL has
\* returned its failure and the lock is free.
C20_Witness ==
    \E t \in Threads :
        /\ op[t] = "none"
        /\ res[t].op = "stop"
        /\ ~res[t].success
        /\ Len(res[t].sent) = 2
        /\ lock = Free
        /\ LiveChildren # {}

====
